---- MODULE Spec2Model ----
(***************************************************************************)
(* DiVAE (src/diVAE.py) and HierarchicalEncoderV2                          *)
(* (src/models/networks/hierarchicalEncoderV2.py) as state machines.       *)
(*                                                                         *)
(* Tensors are sequences (a batch is a sequence of rows).  Floating-point  *)
(* quantities are fixed-point integers in units of 1/Scale.  A call's      *)
(* outcome is "returned", "raised" (a Python exception propagates to the   *)
(* caller) or "exited" (SystemExit ends the process).                      *)
(***************************************************************************)
EXTENDS Integers, Sequences, FiniteSets, TLC

VARIABLES training, alive, op, args, outcome, result, error, calls

vars == <<training, alive, op, args, outcome, result, error, calls>>

(***************************************************************************)
(* Bounds of the model.                                                    *)
(***************************************************************************)
MaxBatch == 2
NumPixels == 2
MaxLevels == 2
NumLatentUnits == 1
MaxSamples == 2
MaxLevel == 2
MaxInputNodes == 2
MaxLatentNodes == 2
MaxHiddenLayers == 2
MaxHiddenNodes == 2

Logits == {-1, 2}
Factorials == {1, 2}
ActivationFcts == {"Tanh", "ReLU"}

PixelRows == [1..NumPixels -> {0, 1}]
LogitRows == [1..NumPixels -> Logits]
LatentRows == [1..NumLatentUnits -> {0, 1}]

InputBatches(N) == [1..N -> PixelRows]
LogitBatches(N) == [1..N -> LogitRows]
LatentBatches(N) == [1..N -> LatentRows]

(***************************************************************************)
(* Arithmetic helpers.                                                     *)
(***************************************************************************)
Scale == 1000

Max(a, b) == IF a >= b THEN a ELSE b

Abs(a) == IF a >= 0 THEN a ELSE -a

RECURSIVE SumSeq(_)
SumSeq(s) == IF Len(s) = 0 THEN 0 ELSE Head(s) + SumSeq(Tail(s))

\* torch.mean of a vector, in fixed point
Mean(v) == SumSeq(v) \div Len(v)

\* torch.nn.Softplus: log(1 + exp(t)), in units of 1/Scale
Softplus(t) ==
    CASE t <= -6 -> 0
      [] t = -5 -> 7
      [] t = -4 -> 18
      [] t = -3 -> 49
      [] t = -2 -> 127
      [] t = -1 -> 313
      [] t = 0 -> 693
      [] t = 1 -> 1313
      [] t = 2 -> 2127
      [] t = 3 -> 3049
      [] t = 4 -> 4018
      [] t = 5 -> 5007
      [] OTHER -> Scale * t

(***************************************************************************)
(* Outcomes of calls.                                                      *)
(***************************************************************************)
NoValue == <<>>

Returned(v, c) == [outcome |-> "returned", value |-> v, error |-> "none", calls |-> c]

Raised(e, c) == [outcome |-> "raised", value |-> NoValue, error |-> e, calls |-> c]

Exited(c) == [outcome |-> "exited", value |-> NoValue, error |-> "SystemExit", calls |-> c]

Call(f, r) == [fn |-> f, outcome |-> r.outcome, value |-> r.value]

(***************************************************************************)
(* Collaborators outside src/: posterior distributions, the RBM prior and  *)
(* the decoder.                                                            *)
(***************************************************************************)
\* factorial.entropy(samples): one value per batch sample and latent unit
Entropy(factorial, samples) ==
    [n \in 1..Len(samples) |->
        [u \in 1..Len(samples[n]) |-> 10 * factorial + samples[n][u]]]

\* prior.cross_entropy(samples): one value per batch sample
CrossEntropy(samples) ==
    [n \in 1..Len(samples) |-> 100 + 7 * SumSeq(samples[n])]

\* decoder.decode_posterior_sample(samples): logits of width NumPixels
DecodePosteriorSample(samples) ==
    [n \in 1..Len(samples) |->
        [d \in 1..NumPixels |-> 3 * SumSeq(samples[n]) - 1]]

(***************************************************************************)
(* DiVAE                                                                   *)
(***************************************************************************)
\* the attributes DiVAE.__init__ and its base classes set on the instance
DiVAEAttributes ==
    {"training", "type", "_latent_dimensions", "_encoder_nodes",
     "_reparamNodes", "_decoder_nodes", "_outputNodes", "_n_hidden_units",
     "weight_decay_factor", "encoder_activation_fct", "encoder", "decoder",
     "prior", "num_latent_hierarchy_levels", "num_latent_units",
     "num_det_units", "num_det_layers", "activation_fct"}

\* x_true is ONE row, broadcast by torch over every row of x_recon
sigmoid_cross_entropy_with_logits(x_true, x_recon) ==
    [n \in 1..Len(x_recon) |->
        [d \in 1..Len(x_recon[n]) |->
            Scale * Max(x_recon[n][d], 0)
              - Scale * x_recon[n][d] * x_true[d]
              - Softplus(Abs(x_recon[n][d]))]]

weight_decay_loss == 0

kl_div_prior_gradient(posterior, prior) == 0

kl_div_posterior_gradient(posterior, prior) == 0

\* a call of a two-parameter method with nargs positional arguments
CallGradient(f, nargs) ==
    IF nargs # 2
    THEN Raised("TypeError", <<>>)
    ELSE Returned(IF f = "kl_div_prior_gradient"
                  THEN kl_div_prior_gradient(NoValue, NoValue)
                  ELSE kl_div_posterior_gradient(NoValue, NoValue), <<>>)

\* the loop of the else branch: entropy accumulated over the first i levels
RECURSIVE EntropyAccumulated(_, _, _)
EntropyAccumulated(posterior, posterior_samples, i) ==
    IF i = 1
    THEN Entropy(posterior[1], posterior_samples[1])
    ELSE LET acc == EntropyAccumulated(posterior, posterior_samples, i - 1)
             e == Entropy(posterior[i], posterior_samples[i])
         IN [n \in 1..Len(e) |-> [u \in 1..Len(e[n]) |-> acc[n][u] + e[n][u]]]

RECURSIVE CrossEntropyAccumulated(_, _)
CrossEntropyAccumulated(posterior_samples, i) ==
    IF i = 1
    THEN CrossEntropy(posterior_samples[1])
    ELSE LET acc == CrossEntropyAccumulated(posterior_samples, i - 1)
             c == CrossEntropy(posterior_samples[i])
         IN [n \in 1..Len(c) |-> acc[n] + c[n]]

\* else branch of kl_divergence (closed form)
KlClosedForm(posterior, posterior_samples) ==
    LET L == Len(posterior)
        entropy == EntropyAccumulated(posterior, posterior_samples, L)
        entropy_reduced == [n \in 1..Len(entropy) |-> SumSeq(entropy[n])]
        cross_entropy == CrossEntropyAccumulated(posterior_samples, L)
    IN Returned([n \in 1..Len(entropy) |-> cross_entropy[n] - entropy_reduced[n]],
                <<[fn |-> "factorial.entropy", outcome |-> "returned", value |-> entropy],
                  [fn |-> "prior.cross_entropy", outcome |-> "returned", value |-> cross_entropy]>>)

\* if branch of kl_divergence (gradient surrogates); no return statement
KlGradients ==
    LET kl_div_prior == CallGradient("kl_div_prior_gradient", 0)
        kl_div_posterior == CallGradient("kl_div_posterior_gradient", 0)
    IN IF kl_div_prior.outcome # "returned"
       THEN Raised(kl_div_prior.error, <<Call("kl_div_prior_gradient", kl_div_prior)>>)
       ELSE IF kl_div_posterior.outcome # "returned"
       THEN Raised(kl_div_posterior.error,
                   <<Call("kl_div_prior_gradient", kl_div_prior),
                     Call("kl_div_posterior_gradient", kl_div_posterior)>>)
       ELSE Returned(NoValue,
                     <<Call("kl_div_prior_gradient", kl_div_prior),
                       Call("kl_div_posterior_gradient", kl_div_posterior)>>)

\* `len(posterior)>1 and self._model.training`: the right operand is only
\* evaluated when the left one is true, and reads the attribute _model
kl_divergence(posterior, posterior_samples, is_training) ==
    IF Len(posterior) > 1
    THEN IF "_model" \notin DiVAEAttributes
         THEN Raised("AttributeError", <<>>)
         ELSE IF is_training
              THEN KlGradients
              ELSE KlClosedForm(posterior, posterior_samples)
    ELSE KlClosedForm(posterior, posterior_samples)

loss(x, x_recon, posterior_distribution, posterior_samples, is_training) ==
    LET ae_loss_matrix == sigmoid_cross_entropy_with_logits(x[1], x_recon)
        ae_loss == [n \in 1..Len(ae_loss_matrix) |-> SumSeq(ae_loss_matrix[n])]
        kl_loss == kl_divergence(posterior_distribution, posterior_samples, is_training)
        head == <<[fn |-> "sigmoid_cross_entropy_with_logits", outcome |-> "returned",
                   value |-> ae_loss_matrix],
                  [fn |-> "torch.sum", outcome |-> "returned", value |-> ae_loss],
                  Call("kl_divergence", kl_loss)>>
    IN IF kl_loss.outcome # "returned"
       THEN Raised(kl_loss.error, head)
       ELSE LET wd == IF is_training THEN weight_decay_loss ELSE 0
                neg_elbo_per_sample ==
                    [n \in 1..Len(ae_loss) |-> ae_loss[n] + kl_loss.value[n]]
                neg_elbo == Mean(neg_elbo_per_sample)
            IN Returned(neg_elbo + wd,
                        IF is_training
                        THEN head \o <<[fn |-> "weight_decay_loss",
                                        outcome |-> "returned", value |-> wd]>>
                        ELSE head)

generate_samples(prior_samples) ==
    LET output_samples == DecodePosteriorSample(prior_samples)
    IN Returned(output_samples,
                <<[fn |-> "prior.get_samples", outcome |-> "returned", value |-> prior_samples],
                  [fn |-> "decoder.decode_posterior_sample", outcome |-> "returned",
                   value |-> output_samples]>>)

\* sys.exit() precedes the return statement
forward(x) ==
    Exited(<<[fn |-> "encoder.hierarchical_posterior", outcome |-> "returned", value |-> NoValue],
             [fn |-> "torch.cat", outcome |-> "returned", value |-> NoValue],
             [fn |-> "decoder.decode", outcome |-> "returned", value |-> NoValue],
             [fn |-> "print", outcome |-> "returned", value |-> NoValue],
             [fn |-> "sys.exit", outcome |-> "exited", value |-> NoValue]>>)

(***************************************************************************)
(* HierarchicalEncoderV2                                                   *)
(***************************************************************************)
HiddenSchedules ==
    UNION {[1..k -> 1..MaxHiddenNodes] : k \in 0..MaxHiddenLayers}

\* layers with the level's share of the input width left out
layers_level_dropped(level, cfg) ==
    <<cfg.num_input_nodes + cfg.n_latent_nodes>>
        \o cfg.encoder_hidden_nodes
        \o <<cfg.n_latent_nodes>>

layers(level, cfg) ==
    <<cfg.num_input_nodes + level * cfg.n_latent_nodes>>
        \o cfg.encoder_hidden_nodes
        \o <<cfg.n_latent_nodes>>

\* nn.Linear allocates an out x in weight; a negative size is an error
Linear(in_features, out_features) ==
    [module |-> "Linear", in_features |-> in_features, out_features |-> out_features]

\* act_fct with the last-layer test off by one
act_fct_off_by_one(l, lays, cfg) ==
    IF l = Len(lays) - 1
    THEN [module |-> "Identity"]
    ELSE [module |-> cfg.activation_fct]

\* l is the 0-based loop index of the source
act_fct(l, lays, cfg) ==
    IF l = Len(lays) - 2
    THEN [module |-> "Identity"]
    ELSE [module |-> cfg.activation_fct]

RECURSIVE moduleLayers(_, _, _)
moduleLayers(lays, cfg, count) ==
    IF count = 0
    THEN <<>>
    ELSE moduleLayers(lays, cfg, count - 1)
            \o <<Linear(lays[count], lays[count + 1]), act_fct(count - 1, lays, cfg)>>

create_hierarchy_network(level, cfg) ==
    LET lays == layers(level, cfg)
    IN IF \E l \in 1..Len(lays) : lays[l] < 0
       THEN Raised("RuntimeError", <<>>)
       ELSE Returned(moduleLayers(lays, cfg, Len(lays) - 1), <<>>)

(***************************************************************************)
(* State machine.  A behaviour is one call on the model: the initial state *)
(* holds the call the caller is about to make (op, args), the caller may   *)
(* switch the mode with train()/eval(), and the call then runs to its      *)
(* outcome.                                                                *)
(***************************************************************************)
Posteriors == UNION {[1..L -> Factorials] : L \in 1..MaxLevels}

LossArgs ==
    UNION {UNION {[x : InputBatches(N), x_recon : LogitBatches(N),
                   posterior : {posterior},
                   posterior_samples : [1..Len(posterior) -> LatentBatches(N)]]
                  : posterior \in Posteriors} : N \in 1..MaxBatch}

KlDivergenceArgs ==
    UNION {UNION {[posterior : {posterior},
                   posterior_samples : [1..Len(posterior) -> LatentBatches(N)]]
                  : posterior \in Posteriors} : N \in 1..MaxBatch}

\* prior_samples is the draw prior.get_samples(n_samples) will produce
GenerateSamplesArgs ==
    UNION {[n_samples : {k}, prior_samples : LatentBatches(k)] : k \in 1..MaxSamples}

ForwardArgs == UNION {[x : InputBatches(N)] : N \in 1..MaxBatch}

Configs ==
    [num_input_nodes : 1..MaxInputNodes,
     n_latent_nodes : 1..MaxLatentNodes,
     encoder_hidden_nodes : HiddenSchedules,
     activation_fct : ActivationFcts]

CreateHierarchyNetworkArgs == [level : -1..MaxLevel, cfg : Configs]

Pending(name, argset) ==
    /\ training = TRUE
    /\ alive = TRUE
    /\ op = name
    /\ args \in argset
    /\ outcome = "pending"
    /\ result = NoValue
    /\ error = "none"
    /\ calls = <<>>

Init ==
    \/ Pending("loss", LossArgs)
    \/ Pending("kl_divergence", KlDivergenceArgs)
    \/ Pending("generate_samples", GenerateSamplesArgs)
    \/ Pending("forward", ForwardArgs)

Finish(r) ==
    /\ outcome' = r.outcome
    /\ result' = r.value
    /\ error' = r.error
    /\ calls' = r.calls
    /\ alive' = (r.outcome # "exited")
    /\ UNCHANGED <<training, op, args>>

\* nn.Module.train()
Train ==
    /\ alive
    /\ outcome = "pending"
    /\ training' = TRUE
    /\ UNCHANGED <<alive, op, args, outcome, result, error, calls>>

\* nn.Module.eval()
Eval ==
    /\ alive
    /\ outcome = "pending"
    /\ training' = FALSE
    /\ UNCHANGED <<alive, op, args, outcome, result, error, calls>>

Loss ==
    /\ alive
    /\ op = "loss"
    /\ outcome = "pending"
    /\ Finish(loss(args.x, args.x_recon, args.posterior, args.posterior_samples, training))

KlDivergence ==
    /\ alive
    /\ op = "kl_divergence"
    /\ outcome = "pending"
    /\ Finish(kl_divergence(args.posterior, args.posterior_samples, training))

GenerateSamples ==
    /\ alive
    /\ op = "generate_samples"
    /\ outcome = "pending"
    /\ Finish(generate_samples(args.prior_samples))

Forward ==
    /\ alive
    /\ op = "forward"
    /\ outcome = "pending"
    /\ Finish(forward(args.x))

Next == Train \/ Eval \/ Loss \/ KlDivergence \/ GenerateSamples \/ Forward

Spec == Init /\ [][Next]_vars

EncoderInit == Pending("_create_hierarchy_network", CreateHierarchyNetworkArgs)

CreateHierarchyNetwork ==
    /\ alive
    /\ op = "_create_hierarchy_network"
    /\ outcome = "pending"
    /\ Finish(create_hierarchy_network(args.level, args.cfg))

EncoderNext == CreateHierarchyNetwork

EncoderSpec == EncoderInit /\ [][EncoderNext]_vars

(***************************************************************************)
(* Properties                                                              *)
(***************************************************************************)
Done(name) == op = name /\ outcome # "pending"

CallsOf(f) == {i \in 1..Len(calls) : calls[i].fn = f}

\* sum over levels of cross-entropy minus sum over levels and units of entropy,
\* each level taken on its own
RECURSIVE KlReference(_, _, _, _)
KlReference(posterior, posterior_samples, n, i) ==
    IF i = 0
    THEN 0
    ELSE KlReference(posterior, posterior_samples, n, i - 1)
            + CrossEntropy(posterior_samples[i])[n]
            - SumSeq(Entropy(posterior[i], posterior_samples[i])[n])

KlReferenceVector(posterior, posterior_samples) ==
    [n \in 1..Len(posterior_samples[1]) |->
        KlReference(posterior, posterior_samples, n, Len(posterior))]

\* C1: for every input batch, forward completes normally and returns the
\* reconstruction logits and the per-level (distribution, sample) pairs to its
\* caller; it never ends the process before returning.
C1_ForwardReturns ==
    Done("forward") => (outcome = "returned" /\ alive)

\* C2: for any number of levels L >= 1, loss returns the batch mean of
\* (reconstruction loss + KL estimate), plus the weight-decay term in training
\* mode and without it in evaluation mode, the KL term coming from
\* kl_divergence in both modes.
C2_LossIsMeanNegElbo ==
    Done("loss") =>
        /\ outcome = "returned"
        /\ \E i \in CallsOf("kl_divergence") : calls[i].outcome = "returned"
        /\ LET ae == sigmoid_cross_entropy_with_logits(args.x[1], args.x_recon)
               kl == KlReferenceVector(args.posterior, args.posterior_samples)
               mean == Mean([n \in 1..Len(ae) |-> SumSeq(ae[n]) + kl[n]])
           IN result = IF training THEN mean + weight_decay_loss ELSE mean

UnfinishedPaths ==
    {"weight_decay_loss", "kl_div_prior_gradient", "kl_div_posterior_gradient"}

\* C3: whenever an unfinished path (the Case-B estimator terms or
\* weight_decay_loss) is reached during a loss computation, it does not
\* contribute a silent placeholder 0 to a returned loss.
C3_NoSilentZero ==
    (Done("loss") /\ outcome = "returned") =>
        \A i \in 1..Len(calls) :
            ~(/\ calls[i].fn \in UnfinishedPaths
              /\ calls[i].outcome = "returned"
              /\ calls[i].value = 0)

\* max(z,0) - z*x + log(1+exp(-|z|))
LossElem(z, x) == Scale * Max(z, 0) - Scale * z * x + Softplus(-Abs(z))

\* C4: the reconstruction term of loss is one scalar per batch sample n, the
\* sum over all output units d of LossElem(z[n,d], x[n,d]) with x[n,:] the
\* sample's own input row.
C4_ReconstructionTerm ==
    Done("loss") =>
        \A i \in CallsOf("torch.sum") :
            /\ Len(calls[i].value) = Len(args.x)
            /\ \A n \in 1..Len(args.x) :
                  calls[i].value[n] =
                      SumSeq([d \in 1..NumPixels |->
                                 LossElem(args.x_recon[n][d], args.x[n][d])])

\* C5: generate_samples(k) draws k prior samples, decodes them, applies the
\* sigmoid and returns exactly k vectors of width D with values in [0,1]; the
\* encoder is not invoked.
C5_GenerateSamples ==
    Done("generate_samples") =>
        /\ outcome = "returned"
        /\ CallsOf("encoder.hierarchical_posterior") = {}
        /\ CallsOf("prior.get_samples") # {}
        /\ Len(result) = args.n_samples
        /\ \A n \in 1..Len(result) :
              /\ Len(result[n]) = NumPixels
              /\ \A d \in 1..Len(result[n]) : result[n][d] >= 0 /\ result[n][d] <= 1

InvalidConfiguration(level, cfg) ==
    \/ level < 0
    \/ cfg.n_latent_nodes <= 0
    \/ cfg.num_input_nodes <= 0
    \/ \E l \in 1..Len(cfg.encoder_hidden_nodes) : cfg.encoder_hidden_nodes[l] <= 0

\* C6: construction fails with an error, and yields no network, whenever the
\* configuration is invalid (bad level, zero latent units, inconsistent
\* node-size schedule).
C6_InvalidConfigurationFails ==
    (Done("_create_hierarchy_network") /\ InvalidConfiguration(args.level, args.cfg))
        => outcome = "raised"

BranchTaken ==
    IF CallsOf("kl_div_prior_gradient") # {} THEN "B"
    ELSE IF CallsOf("factorial.entropy") # {} THEN "A"
    ELSE "none"

\* C7: kl_divergence takes Case B exactly when the posterior has more than one
\* level and the model is training, Case A otherwise, and returns the estimate
\* of the branch taken.
C7_BranchSelection ==
    Done("kl_divergence") =>
        /\ outcome = "returned"
        /\ BranchTaken = (IF Len(args.posterior) > 1 /\ training THEN "B" ELSE "A")

\* C8: in Case A (one level, or not training), for any L >= 1, kl_divergence
\* returns per batch sample the sum over levels of the prior cross-entropy
\* minus the sum over levels and units of the entropy.
C8_ClosedFormKl ==
    (Done("kl_divergence") /\ (Len(args.posterior) = 1 \/ ~training)) =>
        /\ outcome = "returned"
        /\ result = KlReferenceVector(args.posterior, args.posterior_samples)

LinearAt(net, k) == net[2 * k - 1]

ActivationAt(net, k) == net[2 * k]

\* C9: for every level i >= 0 the sub-network's first Linear layer has input
\* width D + i * n_latent_nodes, its last Linear layer has output width
\* n_latent_nodes, and consecutive Linear layers have matching widths.
C9_LayerWidths ==
    (Done("_create_hierarchy_network") /\ args.level >= 0) =>
        /\ outcome = "returned"
        /\ LET K == Len(result) \div 2
           IN /\ K >= 1
              /\ \A k \in 1..K : LinearAt(result, k).module = "Linear"
              /\ LinearAt(result, 1).in_features =
                    args.cfg.num_input_nodes + args.level * args.cfg.n_latent_nodes
              /\ LinearAt(result, K).out_features = args.cfg.n_latent_nodes
              /\ \A k \in 1..(K - 1) :
                    LinearAt(result, k).out_features = LinearAt(result, k + 1).in_features

C9_Witness ==
    /\ Done("_create_hierarchy_network")
    /\ outcome = "returned"
    /\ args.level >= 1
    /\ Len(args.cfg.encoder_hidden_nodes) >= 1
    /\ LinearAt(result, 1).in_features > args.cfg.num_input_nodes

\* C10: for every level and hidden-node schedule (the empty one included) the
\* sub-network has exactly one activation after each Linear layer: Identity
\* after the last, the configured nonlinearity after every earlier one.
C10_Activations ==
    (Done("_create_hierarchy_network") /\ outcome = "returned") =>
        LET K == Len(args.cfg.encoder_hidden_nodes) + 1
        IN /\ Len(result) = 2 * K
           /\ \A k \in 1..K :
                 /\ LinearAt(result, k).module = "Linear"
                 /\ ActivationAt(result, k).module # "Linear"
           /\ ActivationAt(result, K) = [module |-> "Identity"]
           /\ \A k \in 1..(K - 1) :
                 ActivationAt(result, k) = [module |-> args.cfg.activation_fct]

C10_Witness ==
    /\ Done("_create_hierarchy_network")
    /\ outcome = "returned"
    /\ Len(args.cfg.encoder_hidden_nodes) >= 1
    /\ ActivationAt(result, 1).module = args.cfg.activation_fct
    /\ ActivationAt(result, Len(result) \div 2).module = "Identity"

====
